---- MODULE Spec2Model ----
(***************************************************************************)
(* Model of followings.py: one run of main() walks the followings (or      *)
(* followers) of the current user, classifies each account with the        *)
(* unmutual rule or the inactivity rule, and unfollows / removes the       *)
(* accounts classified dead when --unfollow is given.  get_last_toot keeps *)
(* a pickle cache of the timestamps it has computed.                       *)
(*                                                                         *)
(* Strings are sequences of one-character strings; Python's None is the    *)
(* record None, a Python value v is Some(v).  Timestamps and timedeltas    *)
(* are integers.                                                           *)
(***************************************************************************)
EXTENDS Integers, Sequences, FiniteSets, TLC

\* ------------------------------------------------------------- bounds
\* Accounts known to the server, ids 1..NumAccounts.
NumAccounts == 2
\* Successive runs of the script over the same cache file and server.
MaxRuns == 2

Ids == 1..NumAccounts

\* Line 149: now = datetime.now(tz=timezone.utc); the statuses the server
\* lists were created at 0..now.
now == 2
Times == 0..now

\* ------------------------------------------------------- Python values
None == [isNone |-> TRUE, v |-> <<>>]
Some(x) == [isNone |-> FALSE, v |-> x]
NoneInt == [isNone |-> TRUE, v |-> 0]
SomeInt(n) == [isNone |-> FALSE, v |-> n]

\* str.lower() on the alphabet of the handles below.
LowerChar(c) ==
    CASE c = "S" -> "s"
      [] c = "D" -> "d"
      [] OTHER -> c
Lower(s) == [i \in 1..Len(s) |-> LowerChar(s[i])]

\* '@' in acct
HasAt(s) == \E i \in 1..Len(s) : s[i] = "@"
\* acct.split('@', 1)[1]: what follows the first '@'.
AfterFirstAt(s) ==
    LET k == CHOOSE i \in 1..Len(s) :
                 s[i] = "@" /\ \A j \in 1..(i - 1) : s[j] # "@"
    IN SubSeq(s, k + 1, Len(s))

\* The handles the server may report: local, on a skipped instance (in two
\* spellings), on an instance assumed dead, on any other instance; and a
\* record in which 'acct' is missing (f.get('acct') is None).
Handles ==
    { Some(<<"u">>), Some(<<"u", "@", "s">>), Some(<<"u", "@", "S">>),
      Some(<<"u", "@", "d">>), Some(<<"u", "@", "n">>), None }

\* settings.SKIP_INSTANCES and settings.ASSUME_DEAD_INSTANCES
SKIP_INSTANCES == { <<"s">> }
ASSUME_DEAD_INSTANCES == { <<"d">> }

\* x in S for a Python value x that may be None.
In(x, S) == ~x.isNone /\ x.v \in S

VARIABLES
    pc,               \* "start" | "loop" | "done" | "crashed"
    run,              \* number of the run of the script
    settings,         \* [CACHE_FILE: BOOLEAN], truthy when a path is configured
    args,             \* the parsed command line
    remote,           \* the server: who the user follows, is followed by, blocks
    cache_file,       \* the file at settings.CACHE_FILE
    cache_prev,       \* the file at settings.CACHE_FILE + '.prev'
    followings,       \* the list the loop iterates (account ids)
    followings_count,
    local_count,
    idx,              \* position of the loop in followings
    f,                \* the account of the current iteration
    inst,
    act,
    last_toot,        \* what get_last_toot returned in the latest iteration
    moved,            \* f.get('moved') as read at line 230 in the latest iteration
    relations,        \* what account_relationships returned in the latest iteration
    lookup,           \* the exception the lookup of line 206 or 219 raised
    caught,           \* the exception the handler of line 268 caught
    calls,            \* API calls issued in the latest iteration, in order
    out,              \* lines logged in the latest iteration
    server            \* whether the server's data stays as it is, and if so
                      \* what it has answered about each account

vars == << pc, run, settings, args, remote, cache_file, cache_prev, followings,
           followings_count, local_count, idx, f, inst, act, last_toot, moved,
           relations, lookup, caught, calls, out, server >>

\* ------------------------------------------------------------ the cache file
EmptyMap == [x \in {} |-> 0]
Absent == [kind |-> "absent", data |-> EmptyMap]
Corrupt == [kind |-> "corrupt", data |-> EmptyMap]
File(m) == [kind |-> "ok", data |-> m]

NoAccount == [id |-> 0, acct |-> None]
NoneBool == [isNone |-> TRUE, v |-> FALSE]
SomeBool(b) == [isNone |-> FALSE, v |-> b]
NoneRel == [isNone |-> TRUE, following |-> FALSE, requested |-> FALSE]
SomeRel(r) ==
    [isNone |-> FALSE, following |-> r.following, requested |-> r.requested]

\* The command lines (lines 104-123): --target-count absent or a count,
\* --min-activity a timedelta (0d is falsy at line 216).
ArgLines ==
    [unfollow : BOOLEAN, followers : BOOLEAN, unmutuals : BOOLEAN,
     target_count : {NoneInt} \cup {SomeInt(n) : n \in 0..NumAccounts},
     min_activity : {0, 1}]

\* The command lines without --unfollow (dry runs).
DryArgLines == {a \in ArgLines : ~a.unfollow}

\* What is known of an account the server has not been asked about.
NoAnswer ==
    [known |-> FALSE, classified |-> FALSE, acct |-> None,
     rel |-> [raised |-> "none", following |-> FALSE, requested |-> FALSE],
     st |-> [raised |-> "none", statuses |-> {}], mv |-> FALSE, act |-> FALSE]

\* A server whose accounts may change between any two requests, and one
\* whose accounts stay as they are: the same request gets the same answer.
ChangingServer == [stable |-> FALSE, answers |-> [id \in Ids |-> NoAnswer]]
StableServer == [stable |-> TRUE, answers |-> [id \in Ids |-> NoAnswer]]

\* The state when parse_args() has returned (line 123) in the first run,
\* the server being sv and the command line one of lines.
Start(sv, lines) ==
    /\ server = sv
    /\ args \in lines
    /\ pc = "start"
    /\ run = 1
    /\ settings \in [CACHE_FILE : BOOLEAN]
    /\ remote = [following |-> Ids, followers |-> Ids, blocked |-> {}]
    /\ cache_file = Absent
    /\ cache_prev = Absent
    /\ followings = <<>>
    /\ followings_count = 0
    /\ local_count = 0
    /\ idx = 1
    /\ f = NoAccount
    /\ inst = None
    /\ act = FALSE
    /\ last_toot = NoneInt
    /\ moved = NoneBool
    /\ relations = NoneRel
    /\ lookup = "none"
    /\ caught = "none"
    /\ calls = <<>>
    /\ out = {}

Init == Start(ChangingServer, ArgLines)

\* Two dry runs with the same command line against a server whose accounts
\* do not change.
InitDry == Start(StableServer, DryArgLines)

\* ------------------------------------------------------ what the server answers
\* account_statuses(fid): a list of statuses (their created_at), or an
\* exception: requests.RequestException (named in the handlers of lines 212
\* and 241, as is the script's own Error, which nothing raises) or one of
\* the client library's own errors, which no inner handler names.
StatusResponses ==
    [raised : {"none"}, statuses : SUBSET Times]
        \cup [raised : {"RequestException", "MastodonError"}, statuses : {{}}]

\* account_relationships(fid): a one-element list, or an exception.
RelationResponses ==
    [raised : {"none"}, following : BOOLEAN, requested : BOOLEAN]
        \cup [raised : {"RequestException", "MastodonError"},
              following : {FALSE}, requested : {FALSE}]

\* How the save of lines 88-92 ends: the copy to '.prev' fails before or
\* while writing '.prev', open(..., 'wb') fails, pickle.dump fails after the
\* file was truncated, or all of it succeeds.
WriteOutcomes == {"ok", "copy_fail", "copy_partial", "open_fail", "dump_fail"}

\* How the mutating calls of lines 256-261 end: all succeed, the first one
\* raises, or the second one (account_unblock) raises.
MutationOutcomes == {"ok", "fail_first", "fail_second"}

Call(op, fid) == [op |-> op, id |-> fid]
MutatingOps == {"account_unfollow", "account_block", "account_unblock"}

Min(S) == CHOOSE x \in S : \A y \in S : x <= y

\* --------------------------------------------------------------- get_last_toot
\* A faulty LoadCache: the cache file is never read.
LoadCacheNever == EmptyMap

\* Lines 67-75: the mapping the run works with.
LoadCache ==
    IF settings.CACHE_FILE /\ cache_file.kind = "ok" THEN cache_file.data
    ELSE EmptyMap

\* A faulty Put: the time of the lookup is stored, not the timestamp.
PutNow(cache, fid, result) ==
    [x \in DOMAIN cache \cup {fid} |-> IF x = fid THEN now ELSE cache[x]]

\* A faulty Put: the new entry is not added.
PutNothing(cache, fid, result) == cache

\* Line 87: cache[fid] = result
Put(cache, fid, result) ==
    [x \in DOMAIN cache \cup {fid} |-> IF x = fid THEN result ELSE cache[x]]

\* A faulty SaveCache: a successful save writes an empty mapping.
SaveCacheEmpty(cache, wr) ==
    LET exists == cache_file.kind # "absent"
        copied == IF exists THEN cache_file ELSE cache_prev
    IN CASE wr = "copy_fail" -> [file |-> cache_file, prev |-> cache_prev]
         [] wr = "copy_partial" -> [file |-> cache_file, prev |-> Corrupt]
         [] wr = "open_fail" -> [file |-> cache_file, prev |-> copied]
         [] wr = "dump_fail" -> [file |-> Corrupt, prev |-> copied]
         [] OTHER -> [file |-> File(EmptyMap), prev |-> copied]

\* Lines 88-94: the files after the save ended as wr.
SaveCache(cache, wr) ==
    LET exists == cache_file.kind # "absent"
        copied == IF exists THEN cache_file ELSE cache_prev
    IN CASE wr = "copy_fail" -> [file |-> cache_file, prev |-> cache_prev]
         [] wr = "copy_partial" -> [file |-> cache_file, prev |-> Corrupt]
         [] wr = "open_fail" -> [file |-> cache_file, prev |-> copied]
         [] wr = "dump_fail" -> [file |-> Corrupt, prev |-> copied]
         [] OTHER -> [file |-> File(cache), prev |-> copied]

\* get_last_toot(mastodon, fid), the server answering resp and the save
\* ending as wr: the exception raised or the result returned, the calls
\* issued, the lines printed and the two files afterwards.
get_last_toot(fid, resp, wr) ==
    LET cache == LoadCache
        load_out == IF settings.CACHE_FILE /\ cache_file.kind # "ok"
                    THEN {"Error loading cache"} ELSE {}
        base == [raised |-> "none", result |-> NoneInt, calls |-> <<>>,
                 out |-> load_out, file |-> cache_file, prev |-> cache_prev]
        queried == [base EXCEPT !.calls = <<Call("account_statuses", fid)>>]
    IN IF fid \in DOMAIN cache
       THEN [base EXCEPT !.result = SomeInt(cache[fid])]
       ELSE IF resp.raised # "none"
       THEN [queried EXCEPT !.raised = resp.raised]
       ELSE IF resp.statuses = {}
       THEN [queried EXCEPT !.raised = "UserGone"]
       ELSE LET result == Min(resp.statuses)
                saved == SaveCache(Put(cache, fid, result), wr)
            IN IF settings.CACHE_FILE
               THEN [queried EXCEPT
                        !.result = SomeInt(result),
                        !.file = saved.file,
                        !.prev = saved.prev,
                        !.out = load_out \cup
                                (IF wr = "ok" THEN {} ELSE {"Error saving cache"})]
               ELSE [queried EXCEPT !.result = SomeInt(result)]

\* ------------------------------------------------------------------------ main
\* list(followings) of line 171: the accounts in the server's order.
Listing(S) ==
    CHOOSE s \in [1..Cardinality(S) -> S] :
        \A i, j \in 1..Cardinality(S) : i < j => s[i] < s[j]

\* Lines 177-180
Instance(acct) ==
    IF HasAt(acct.v) THEN Some(Lower(AfterFirstAt(acct.v))) ELSE None

\* A faulty TargetReached: the count of line 143 is tested, not the counter.
TargetReachedInitially(a, count) ==
    ~a.target_count.isNone /\ followings_count <= a.target_count.v

\* A faulty TargetReached: the loop stops one account late.
TargetReachedStrict(a, count) ==
    ~a.target_count.isNone /\ count < a.target_count.v

\* Line 182
TargetReached(a, count) ==
    ~a.target_count.isNone /\ count <= a.target_count.v

\* A faulty NotSkipped: the skip list is not consulted.
NotSkippedAnyone(ins) == TRUE

\* Lines 204 and 216: inst not in settings.SKIP_INSTANCES
NotSkipped(ins) == ~In(ins, SKIP_INSTANCES)

\* Lines 204 and 216: the rule the if / elif selects for an account.
Rule(a, ins) ==
    IF a.unmutuals /\ NotSkipped(ins) THEN "unmutual"
    ELSE IF a.min_activity # 0 /\ NotSkipped(ins) THEN "inactivity"
    ELSE "none"

\* A faulty IsMutual: a pending follow request does not count.
IsMutualFollowingOnly(rel) == rel.following

\* Line 207
IsMutual(rel) == rel.following \/ rel.requested

\* A faulty TooOld: a timestamp equal to the threshold counts as old.
TooOldOrEqual(ts, a) == ts <= now - a.min_activity

\* Line 220
TooOld(ts, a) == ts < now - a.min_activity

\* A faulty ActOnGone: the 'moved' reference is ignored.
ActOnGoneAlways(mv) == TRUE

\* Lines 230-238: a gone account is acted on unless its record carries a
\* 'moved' reference.
ActOnGone(mv) == ~mv

\* A faulty AssumedDead: every instance is assumed dead.
AssumedDeadAlways(ins) == TRUE

\* Line 242: inst and inst in settings.ASSUME_DEAD_INSTANCES
AssumedDead(ins) == In(ins, ASSUME_DEAD_INSTANCES) /\ ins.v # <<>>

\* A faulty ResetAct: the decision of the previous account is kept.
ResetActStale == act

\* Line 202: act = False at the start of every iteration.
ResetAct == FALSE

\* Lines 202-247: the classification of account fr on instance ins, whose
\* record carries a 'moved' reference iff mv: act, the exception that
\* leaves the block (if any), the calls, the lines logged, and the cache
\* files afterwards.
Classify(fr, ins, mv, rel, st, wr) ==
    LET quiet == [act |-> ResetAct, raised |-> "none", calls |-> <<>>, out |-> {},
                  last_toot |-> NoneInt, moved |-> NoneBool,
                  relations |-> NoneRel, lookup |-> "none",
                  file |-> cache_file, prev |-> cache_prev]
    IN IF Rule(args, ins) = "unmutual"
       THEN LET asked == [quiet EXCEPT
                             !.calls = <<Call("account_relationships", fr.id)>>]
            IN CASE rel.raised = "RequestException" ->
                        [asked EXCEPT !.lookup = rel.raised,
                                      !.out = {"Exception"}]
                 [] rel.raised = "MastodonError" ->
                        [asked EXCEPT !.lookup = rel.raised,
                                      !.raised = rel.raised]
                 [] OTHER ->
                        IF ~IsMutual(rel)
                        THEN [asked EXCEPT !.relations = SomeRel(rel),
                                           !.act = TRUE, !.out = {"Unmutual"}]
                        ELSE [asked EXCEPT !.relations = SomeRel(rel)]
       ELSE IF Rule(args, ins) = "inactivity"
       THEN LET r == get_last_toot(fr.id, st, wr)
                got == [quiet EXCEPT !.calls = r.calls, !.out = r.out,
                                     !.lookup = r.raised,
                                     !.file = r.file, !.prev = r.prev]
            IN CASE r.raised = "none" ->
                        IF TooOld(r.result.v, args)
                        THEN [got EXCEPT !.act = TRUE, !.last_toot = r.result,
                                         !.out = r.out \cup {"Last toot (!)"}]
                        ELSE [got EXCEPT !.last_toot = r.result]
                 [] r.raised = "UserGone" ->
                        IF ActOnGone(mv)
                        THEN [got EXCEPT !.act = TRUE,
                                         !.moved = SomeBool(mv),
                                         !.out = r.out \cup {"User gone"}]
                        ELSE [got EXCEPT !.moved = SomeBool(mv),
                                         !.out = r.out \cup {"User moved"}]
                 [] r.raised = "RequestException" ->
                        IF AssumedDead(ins)
                        THEN [got EXCEPT !.act = TRUE,
                                         !.out = r.out \cup {"Instance gone"}]
                        ELSE [got EXCEPT !.raised = r.raised]
                 [] OTHER -> [got EXCEPT !.raised = r.raised]
       ELSE quiet

\* account_block, account_unblock and account_unfollow on the server.
Block(r, fid) ==
    [r EXCEPT !.blocked = @ \cup {fid}, !.followers = @ \ {fid},
              !.following = @ \ {fid}]
Unblock(r, fid) == [r EXCEPT !.blocked = @ \ {fid}]
Unfollow(r, fid) == [r EXCEPT !.following = @ \ {fid}]

\* A faulty Applies: the run applies whatever the command line says.
AppliesAlways(a) == TRUE

\* Line 252: the run applies what it decides.
Applies(a) == a.unfollow

\* A faulty Decremented: the counter only follows removals that are issued.
DecrementedWhenApplied(count) == IF args.unfollow THEN count - 1 ELSE count

\* Line 250: local_count -= 1
Decremented(count) == count - 1

\* Lines 249-267, entered with act true: the count, the calls, the server
\* afterwards and the exception a failed call raises.
Apply(fid, mut) ==
    LET count == Decremented(local_count)
    IN IF Applies(args)
       THEN IF args.followers
            THEN CASE mut = "fail_first" ->
                        [count |-> count, raised |-> "MastodonError",
                         calls |-> <<Call("account_block", fid)>>,
                         remote |-> remote, out |-> {"Removing follower"}]
                   [] mut = "fail_second" ->
                        [count |-> count, raised |-> "MastodonError",
                         calls |-> <<Call("account_block", fid),
                                     Call("account_unblock", fid)>>,
                         remote |-> Block(remote, fid),
                         out |-> {"Removing follower"}]
                   [] OTHER ->
                        [count |-> count, raised |-> "none",
                         calls |-> <<Call("account_block", fid),
                                     Call("account_unblock", fid)>>,
                         remote |-> Unblock(Block(remote, fid), fid),
                         out |-> {"Removing follower", "followings left"}]
            ELSE IF mut = "fail_first"
                 THEN [count |-> count, raised |-> "MastodonError",
                       calls |-> <<Call("account_unfollow", fid)>>,
                       remote |-> remote, out |-> {"Unfollowing"}]
                 ELSE [count |-> count, raised |-> "none",
                       calls |-> <<Call("account_unfollow", fid)>>,
                       remote |-> Unfollow(remote, fid),
                       out |-> {"Unfollowing", "followings left"}]
       ELSE [count |-> count, raised |-> "none", calls |-> <<>>,
             remote |-> remote, out |-> {"(not) unfollowing", "followings left"}]

\* ---------------------------------------------------------------- the actions
\* Lines 133-171: --unmutuals implies --followers, read the count, fetch
\* the list.
Main ==
    /\ pc = "start"
    /\ LET parsed == [args EXCEPT !.followers = args.followers \/ args.unmutuals]
           listed == IF parsed.followers THEN remote.followers
                     ELSE remote.following
       IN /\ args' = parsed
          /\ followings_count' = Cardinality(listed)
          /\ local_count' = Cardinality(listed)
          /\ followings' = Listing(listed)
    /\ idx' = 1
    /\ pc' = "loop"
    /\ UNCHANGED << run, settings, remote, cache_file, cache_prev, f, inst, act,
                    last_toot, moved, relations, lookup, caught, calls, out,
                    server >>

\* The stable server has been asked about account fid in an iteration.
Answered(fid) == server.stable /\ server.answers[fid].classified

\* The handles the list of line 131 or 133 may hold for account fid.
Accounts(fid) ==
    IF server.stable /\ server.answers[fid].known
    THEN {server.answers[fid].acct}
    ELSE Handles

\* The server after it listed account fid with handle acct.
Listed(fid, acct) ==
    IF server.stable /\ ~server.answers[fid].known
    THEN [server EXCEPT !.answers[fid] =
            [NoAnswer EXCEPT !.known = TRUE, !.acct = acct]]
    ELSE server

\* The server after an iteration asked it about account fr and decided d.
AnsweredWith(fr, rel, st, mv, d) ==
    IF server.stable /\ ~Answered(fr.id)
    THEN [server EXCEPT !.answers[fr.id] =
            [known |-> TRUE, classified |-> TRUE, acct |-> fr.acct,
             rel |-> rel, st |-> st, mv |-> mv, act |-> d]]
    ELSE server

\* Lines 173-177 with an account record that has no 'acct': '@' in None
\* raises TypeError before the try of line 199, and main() ends with it.
LoopCrash ==
    /\ pc = "loop"
    /\ idx <= Len(followings)
    /\ None \in Accounts(followings[idx])
    /\ f' = [id |-> followings[idx], acct |-> None]
    /\ server' = Listed(followings[idx], None)
    /\ pc' = "crashed"
    /\ calls' = <<>>
    /\ out' = {}
    /\ caught' = "none"
    /\ UNCHANGED << run, settings, args, remote, cache_file, cache_prev,
                    followings, followings_count, local_count, idx, inst, act,
                    last_toot, moved, relations, lookup >>

\* Lines 173-185 when the target count is reached: break.
LoopBreak ==
    /\ pc = "loop"
    /\ idx <= Len(followings)
    /\ TargetReached(args, local_count)
    /\ \E acct \in Accounts(followings[idx]) \ {None} :
         /\ f' = [id |-> followings[idx], acct |-> acct]
         /\ inst' = Instance(acct)
         /\ server' = Listed(followings[idx], acct)
    /\ pc' = "done"
    /\ calls' = <<>>
    /\ out' = {"stopping"}
    /\ caught' = "none"
    /\ UNCHANGED << run, settings, args, remote, cache_file, cache_prev,
                    followings, followings_count, local_count, idx, act,
                    last_toot, moved, relations, lookup >>

\* What the server and the file system may answer in an iteration; an
\* answer the iteration does not ask for is left at its first value, and a
\* server that is stable repeats the answers it gave about the account.
AnyRelation == [raised |-> "none", following |-> FALSE, requested |-> FALSE]
AnyStatuses == [raised |-> "none", statuses |-> {}]
Relations(rule, fid) ==
    IF Answered(fid) THEN {server.answers[fid].rel}
    ELSE IF rule = "unmutual" THEN RelationResponses ELSE {AnyRelation}
Statuses(rule, fid) ==
    IF Answered(fid) THEN {server.answers[fid].st}
    ELSE IF rule = "inactivity" /\ fid \notin DOMAIN LoadCache
    THEN StatusResponses
    ELSE {AnyStatuses}
Writes(rule, fid, st) ==
    IF /\ rule = "inactivity"
       /\ settings.CACHE_FILE
       /\ fid \notin DOMAIN LoadCache
       /\ st.raised = "none"
       /\ st.statuses # {}
    THEN (IF cache_file.kind = "absent"
          THEN WriteOutcomes \ {"copy_fail", "copy_partial"}
          ELSE WriteOutcomes)
    ELSE {"ok"}
Moves(rule, fid, st) ==
    IF Answered(fid) THEN {server.answers[fid].mv}
    ELSE
    IF /\ rule = "inactivity"
       /\ fid \notin DOMAIN LoadCache
       /\ st.raised = "none"
       /\ st.statuses = {}
    THEN BOOLEAN
    ELSE {FALSE}
Mutations(acting) ==
    IF acting /\ Applies(args)
    THEN (IF args.followers THEN MutationOutcomes
          ELSE MutationOutcomes \ {"fail_second"})
    ELSE {"ok"}

\* Lines 173-270: one whole iteration for the next account of the list.
LoopBody ==
    /\ pc = "loop"
    /\ idx <= Len(followings)
    /\ ~TargetReached(args, local_count)
    /\ \E acct \in Accounts(followings[idx]) \ {None} :
         LET fr == [id |-> followings[idx], acct |-> acct]
             ins == Instance(acct)
             rule == Rule(args, ins)
         IN \E rel \in Relations(rule, fr.id), st \in Statuses(rule, fr.id) :
            \E wr \in Writes(rule, fr.id, st), mv \in Moves(rule, fr.id, st) :
            \E c \in {Classify(fr, ins, mv, rel, st, wr)} :
            \E mut \in Mutations(c.raised = "none" /\ c.act) :
            \E a \in {IF c.raised = "none" /\ c.act THEN Apply(fr.id, mut)
                      ELSE [count |-> local_count, raised |-> c.raised,
                            calls |-> <<>>, remote |-> remote, out |-> {}]} :
              /\ f' = fr
              /\ inst' = ins
              /\ act' = c.act
              /\ last_toot' = c.last_toot
              /\ moved' = c.moved
              /\ relations' = c.relations
              /\ lookup' = c.lookup
              /\ caught' = a.raised
              /\ cache_file' = c.file
              /\ cache_prev' = c.prev
              /\ local_count' = a.count
              /\ remote' = a.remote
              /\ calls' = c.calls \o a.calls
              /\ out' = c.out \cup a.out \cup
                        (IF a.raised # "none" THEN {"Error"} ELSE {})
              /\ server' = AnsweredWith(fr, rel, st, mv, c.act)
    /\ idx' = idx + 1
    /\ UNCHANGED << pc, run, settings, args, followings, followings_count >>

\* The for loop of line 172 runs out of accounts.
LoopEnd ==
    /\ pc = "loop"
    /\ idx > Len(followings)
    /\ pc' = "done"
    /\ UNCHANGED << run, settings, args, remote, cache_file, cache_prev,
                    followings, followings_count, local_count, idx, f, inst,
                    act, last_toot, moved, relations, lookup, caught, calls,
                    out, server >>

\* The script is started again, the files and the server being as the last
\* run left them: with any command line, or, against the stable server, with
\* the command line of the run before.
Restart ==
    /\ pc \in {"done", "crashed"}
    /\ run < MaxRuns
    /\ run' = run + 1
    /\ pc' = "start"
    /\ args' \in (IF server.stable THEN {args} ELSE ArgLines)
    /\ followings' = <<>>
    /\ followings_count' = 0
    /\ local_count' = 0
    /\ idx' = 1
    /\ f' = NoAccount
    /\ inst' = None
    /\ act' = FALSE
    /\ last_toot' = NoneInt
    /\ moved' = NoneBool
    /\ relations' = NoneRel
    /\ lookup' = "none"
    /\ caught' = "none"
    /\ calls' = <<>>
    /\ out' = {}
    /\ UNCHANGED << settings, remote, cache_file, cache_prev, server >>

Next == Main \/ LoopCrash \/ LoopBreak \/ LoopBody \/ LoopEnd \/ Restart

Spec == Init /\ [][Next]_vars

SpecDry == InitDry /\ [][Next]_vars

\* ------------------------------------------------------------------ the claims
\* The operations named in a list of calls.
Ops(cs) == {cs[i].op : i \in 1..Len(cs)}

\* The state is the one an iteration of the loop body has just left: f, inst,
\* act, calls and out are those of that iteration.
Classified == pc = "loop" /\ idx > 1

\* The rule in force for the account on instance ins.
UnderUnmutual(ins) == args.unmutuals /\ ~In(ins, SKIP_INSTANCES)
UnderInactivity(ins) ==
    ~args.unmutuals /\ args.min_activity # 0 /\ ~In(ins, SKIP_INSTANCES)

\* C1: in a run started without --unfollow no step of the run issues an
\* unfollow, block or unblock call, whatever the collection, the rule and the
\* outcome of the classification, and no step changes the follow / block
\* state of the server.
C1_DryRunMutatesNothing ==
    [][(pc = "loop" /\ ~args.unfollow)
          => (remote' = remote /\ Ops(calls') \cap MutatingOps = {})]_vars

\* C1 witness: a dry run has classified an account dead and only reported it.
C1_Witness ==
    /\ Classified
    /\ ~args.unfollow
    /\ act
    /\ "(not) unfollowing" \in out
    /\ remote.followers = Ids /\ remote.following = Ids

\* C2: an iteration for an account whose instance is in SKIP_INSTANCES, under
\* either rule, issues no call at all, leaves act false, does not decrement
\* the remaining counter and changes nothing on the server.
C2_SkippedInstanceUntouched ==
    [][(pc = "loop" /\ idx' = idx + 1 /\ In(inst', SKIP_INSTANCES))
          => /\ calls' = <<>>
             /\ ~act'
             /\ local_count' = local_count
             /\ remote' = remote]_vars

\* C2 witness: an account with handle u@S, whose lower-cased instance is
\* skipped, has been through an iteration of an inactivity run.
C2_Witness ==
    /\ Classified
    /\ f.acct = Some(<<"u", "@", "S">>)
    /\ In(inst, SKIP_INSTANCES)
    /\ ~args.unmutuals /\ args.min_activity # 0
    /\ args.unfollow

\* C3: with a target count configured, a step of the loop taken when the
\* remaining counter is <= the target ends the loop without classifying or
\* acting: no call, no decrement, no change of act, of the cache or of the
\* server.  With the target equal to the initial count this is the first step.
C3_TargetCountStops ==
    [][(/\ pc = "loop"
        /\ idx <= Len(followings)
        /\ ~args.target_count.isNone
        /\ local_count <= args.target_count.v)
          => /\ pc' # "loop"
             /\ idx' = idx
             /\ calls' = <<>>
             /\ local_count' = local_count
             /\ act' = act
             /\ remote' = remote
             /\ cache_file' = cache_file]_vars

\* C3 witness: the target equals the initial count and the loop stopped at its
\* first account.
C3_Witness ==
    /\ pc = "done"
    /\ "stopping" \in out
    /\ idx = 1
    /\ followings_count = NumAccounts
    /\ args.target_count = SomeInt(followings_count)
    /\ local_count = followings_count

\* C4 (as claimed): no account's failure aborts the run; a run ends only when
\* the list is exhausted or the target count stops it.
C4_FailureNeverAborts ==
    pc \in {"done", "crashed"} => (idx > Len(followings) \/ "stopping" \in out)

\* C5: with caching enabled, an iteration for an account whose identifier is
\* in the persisted cache issues no status-listing call, and under the
\* inactivity rule the timestamp it works with is the cached one.
C5_CacheHitSkipsNetwork ==
    [][(/\ pc = "loop"
        /\ idx' = idx + 1
        /\ settings.CACHE_FILE
        /\ cache_file.kind = "ok"
        /\ f'.id \in DOMAIN cache_file.data)
          => /\ "account_statuses" \notin Ops(calls')
             /\ UnderInactivity(inst')
                   => last_toot' = SomeInt(cache_file.data[f'.id])]_vars

\* C5 witness: in a second run an account was classified from the cache, with
\* no call.
C5_Witness ==
    /\ Classified
    /\ run = 2
    /\ settings.CACHE_FILE
    /\ cache_file.kind = "ok"
    /\ f.id \in DOMAIN cache_file.data
    /\ last_toot = SomeInt(cache_file.data[f.id])
    /\ calls = <<>>
    /\ act

\* C6 (as claimed): an unblock is only issued after a block of the same
\* account, and no account is left blocked.
C6_NoPersistentBlock ==
    /\ \A i \in 1..Len(calls) :
         calls[i].op = "account_unblock"
            => \E j \in 1..(i - 1) :
                  calls[j] = Call("account_block", calls[i].id)
    /\ remote.blocked = {}

C8_UserGone ==
    (Classified /\ lookup = "UserGone")
       => /\ ~moved.isNone
          /\ act = ~moved.v
          /\ moved.v => calls = <<Call("account_statuses", f.id)>>
          /\ ~moved.v => "User gone" \in out

\* C8 witness: a moved account with no status went through an apply run.
C8_Witness ==
    /\ Classified
    /\ lookup = "UserGone"
    /\ moved = SomeBool(TRUE)
    /\ args.unfollow
    /\ ~act

\* C9: under the unmutual rule, when the relationship query succeeds,
\* act = NOT (following OR requested).
C9_Unmutual ==
    (Classified /\ UnderUnmutual(inst) /\ lookup = "none")
       => /\ ~relations.isNone
          /\ act = ~(relations.following \/ relations.requested)

\* C9 witness: following = false with requested = true, not classified dead.
C9_Witness ==
    /\ Classified
    /\ UnderUnmutual(inst)
    /\ relations = [isNone |-> FALSE, following |-> FALSE, requested |-> TRUE]
    /\ ~act

\* C10: under the inactivity rule, when a timestamp is obtained, act is true
\* iff the timestamp is strictly older than now - min_activity.
C10_StrictlyOlder ==
    (Classified /\ UnderInactivity(inst) /\ lookup = "none")
       => /\ ~last_toot.isNone
          /\ act = (last_toot.v < now - args.min_activity)

\* C10 witness: a timestamp equal to the threshold, not classified dead.
C10_Witness ==
    /\ Classified
    /\ UnderInactivity(inst)
    /\ last_toot = SomeInt(now - args.min_activity)
    /\ ~act

\* The accounts the first run against the stable server classified.
ClassifiedBefore == {id \in Ids : server.answers[id].classified}

\* C11: of two successive dry runs with the same command line against a
\* server whose accounts do not change, the second classifies the accounts
\* the first classified, each with the decision the first took, whether the
\* cache is disabled, was written by the first run, or failed to be.
C11_DryRunsAgree ==
    (server.stable /\ run = 2)
       => /\ Classified
             => /\ f.id \in ClassifiedBefore
                /\ act = server.answers[f.id].act
          /\ pc \in {"done", "crashed"}
             => idx - 1 = Cardinality(ClassifiedBefore)

\* C11 witness: the second run classified an account dead from the entry
\* the first run cached, without asking the server.
C11_Witness ==
    /\ server.stable
    /\ run = 2
    /\ Classified
    /\ UnderInactivity(inst)
    /\ settings.CACHE_FILE
    /\ f.id \in DOMAIN LoadCache
    /\ calls = <<>>
    /\ act

\* A step that is one iteration of the loop body (lines 199-270).
Iteration == pc = "loop" /\ pc' = "loop" /\ idx' = idx + 1

\* The iteration listed the account's statuses (line 80).
Queried(cs) == "account_statuses" \in Ops(cs)

\* C12: with caching enabled, after a save that reported no error the cache
\* file loads as exactly the mapping that was written, the loaded mapping plus
\* the new entry; and a missing or damaged cache file is loaded as an empty
\* mapping with an error printed, the lookup going on with the live query.
C12_RoundTrip ==
    [][(Iteration /\ settings.CACHE_FILE /\ UnderInactivity(inst'))
         => LET old == IF cache_file.kind = "ok" THEN cache_file.data
                       ELSE EmptyMap
                written == [x \in DOMAIN old \cup {f'.id} |->
                              IF x = f'.id THEN last_toot'.v ELSE old[x]]
            IN /\ (Queried(calls') /\ lookup' = "none"
                     /\ "Error saving cache" \notin out')
                  => /\ cache_file'.kind = "ok"
                     /\ cache_file'.data = written
                     /\ LoadCache' = written
               /\ cache_file.kind # "ok"
                  => /\ "Error loading cache" \in out'
                     /\ Queried(calls')]_vars

\* C12 witness: a damaged cache file was loaded as empty, the account was
\* queried and the save wrote a file holding just its entry.
C12_Witness ==
    /\ Classified
    /\ settings.CACHE_FILE
    /\ UnderInactivity(inst)
    /\ "Error loading cache" \in out
    /\ "Error saving cache" \notin out
    /\ cache_prev = Corrupt
    /\ cache_file.kind = "ok"
    /\ DOMAIN cache_file.data = {f.id}

\* C13: an entry of the cache file is never lost: an account that has an
\* entry in the file before a step has one after it, whether the step's load
\* or write fails or not.
C13_EntriesNeverDeleted ==
    [][\A id \in Ids :
         (cache_file.kind = "ok" /\ id \in DOMAIN cache_file.data)
            => (cache_file'.kind = "ok" /\ id \in DOMAIN cache_file'.data)]_vars

\* C14: whenever the cache file is overwritten the backup file becomes the
\* content the cache file had before, and whenever it is not overwritten the
\* backup stays the state before the current one.
C14_BackupIsPrevious ==
    [][/\ cache_file' # cache_file => cache_prev' = cache_file
       /\ cache_file' = cache_file => cache_prev' = cache_prev]_vars

\* The iteration issued a removal and every call of it returned.
RemovalCompleted(cs, ex) == Ops(cs) \cap MutatingOps # {} /\ ex = "none"

\* C15 as stated: the counter goes down by one exactly in the iterations
\* whose removal completed.
C15_CountFollowsRemovals ==
    [][Iteration
         => local_count' = IF RemovalCompleted(calls', caught')
                           THEN local_count - 1 ELSE local_count]_vars

\* C15 amended: the counter starts at the count the server reported and goes
\* down by one exactly in the iterations that classify their account dead,
\* whether the removal is issued or not and whether it completes or not.
C15_CountFollowsDecisions ==
    [][/\ (pc = "start" /\ pc' = "loop") => local_count' = followings_count'
       /\ pc = "loop"
          => local_count' = IF idx' = idx + 1 /\ act' THEN local_count - 1
                            ELSE local_count]_vars

\* C15 witness: the removal of the first account failed and the counter went
\* down all the same.
C15_Witness ==
    /\ Classified
    /\ idx = 2
    /\ act
    /\ caught # "none"
    /\ ~args.followers
    /\ f.id \in remote.following
    /\ local_count = followings_count - 1

\* C16 as stated: with caching enabled, a classification under the inactivity
\* rule that ended with a timestamp or with the account gone, and whose save
\* reported no error, leaves an entry for the account in the cache file.
C16_EntryOnFirstClassification ==
    [][(Iteration /\ settings.CACHE_FILE /\ UnderInactivity(inst')
          /\ lookup' \in {"none", "UserGone"}
          /\ "Error saving cache" \notin out')
         => (cache_file'.kind = "ok" /\ f'.id \in DOMAIN cache_file'.data)]_vars

\* C16 amended: with caching enabled and no save error, a classification that
\* obtained a timestamp leaves an entry holding that timestamp; a
\* classification that found the account gone leaves the cache file as it was
\* and has listed the statuses, so a gone account is listed again every time;
\* and an account with an entry is classified without listing its statuses.
C16_EntryOnlyWithStatuses ==
    [][(Iteration /\ settings.CACHE_FILE /\ UnderInactivity(inst')
          /\ "Error saving cache" \notin out')
         => /\ lookup' = "none"
               => /\ cache_file'.kind = "ok"
                  /\ f'.id \in DOMAIN cache_file'.data
                  /\ cache_file'.data[f'.id] = last_toot'.v
            /\ lookup' = "UserGone"
               => /\ cache_file' = cache_file
                  /\ Queried(calls')
            /\ (cache_file.kind = "ok" /\ f'.id \in DOMAIN cache_file.data)
               => ~Queried(calls')]_vars

\* C16 witness: in a second run the other account has its entry, and the
\* gone account has none and was listed again.
C16_Witness ==
    /\ Classified
    /\ run = 2
    /\ settings.CACHE_FILE
    /\ lookup = "UserGone"
    /\ Queried(calls)
    /\ cache_file.kind = "ok"
    /\ DOMAIN cache_file.data = Ids \ {f.id}

\* C17: in a run whose count at start is at least --target-count, the
\* counter never drops below --target-count, so at most
\* (count at start - target) accounts are acted on.
C17_NeverBelowTarget ==
    (/\ pc \in {"loop", "done", "crashed"}
     /\ ~args.target_count.isNone
     /\ followings_count >= args.target_count.v)
       => local_count >= args.target_count.v

\* C17 witness: the run stopped with the counter equal to a target below the
\* count at start, an account having been removed and one left.
C17_Witness ==
    /\ pc = "done"
    /\ "stopping" \in out
    /\ args.unfollow
    /\ args.target_count = SomeInt(1)
    /\ followings_count = 2
    /\ local_count = 1
    /\ Cardinality(remote.following) = 1

\* The number of calls of operation op in cs.
Count(cs, op) == Cardinality({i \in 1..Len(cs) : cs[i].op = op})

\* C18: the mutating calls of an iteration are made for the account of that
\* iteration, after a rule of that iteration classified it dead (a decision
\* of an earlier iteration is never carried over), at most one removal per
\* account; unfollow only when followings are processed, block and unblock
\* only when followers are.
C18_OnlyCurrentAccount ==
    Classified
       => /\ args.unmutuals => args.followers
          /\ \A i \in 1..Len(calls) :
               calls[i].op \in MutatingOps
                  => /\ calls[i].id = f.id
                     /\ act
                     /\ lookup \in {"none", "UserGone", "RequestException"}
                     /\ UnderUnmutual(inst) \/ UnderInactivity(inst)
                     /\ calls[i].op = "account_unfollow" => ~args.followers
                     /\ calls[i].op # "account_unfollow" => args.followers
          /\ \A op \in MutatingOps : Count(calls, op) <= 1
          /\ (~UnderUnmutual(inst) /\ ~UnderInactivity(inst))
                => (~act /\ Ops(calls) \cap MutatingOps = {})

\* C18 witness: the first account was removed, and the second, on a skipped
\* instance, is left alone: no decision and no call.
C18_Witness ==
    /\ Classified
    /\ idx = 3
    /\ args.unfollow
    /\ ~args.followers
    /\ remote.following = {f.id}
    /\ In(inst, SKIP_INSTANCES)
    /\ ~act
    /\ calls = <<>>
====
